---- MODULE Spec2Model ----
(***************************************************************************)
(* A model of the chess rules engine of src/chess.py and src/pieces.py.    *)
(*                                                                         *)
(* Squares are records [file_, rank_]; the file letter 'a'..'h' is kept as *)
(* its index 1..8 (ord(file_) - ord('a') + 1).  A board's squares are the  *)
(* list of eight rows of src/chess.py, rank 8 first, indexed from 1, so    *)
(* to_board_coordinates() is (9 - rank_, file_).  Python's None is NoPiece *)
(* for a piece, NoSquare for a square and NoPromotion for promotion data.  *)
(* Text (FEN) is a sequence of one-character strings.                      *)
(***************************************************************************)
EXTENDS Integers, Sequences, FiniteSets, TLC

\* ------------------------------------------------------------------------
\* Bounds of the model
\* ------------------------------------------------------------------------
MaxPlies == 2
\* successful moves before the failing calls of SpecValidate
MaxProbePlies == 1
\* successful moves of a game played from the starting position
MaxStartPlies == 9
\* successful moves of the game in which a king is taken
MaxKingHuntPlies == 12

\* ------------------------------------------------------------------------
\* Pieces and colours (src/chess.py)
\* ------------------------------------------------------------------------
NoPiece == "None"
NoPromotion == "None"
NoColour == "None"

WHITE_PIECES == {"P", "R", "N", "B", "K", "Q"}
BLACK_PIECES == {"p", "r", "n", "b", "k", "q"}
WHITE_PROMOTION_OPTIONS == WHITE_PIECES \ {"P"}
BLACK_PROMOTION_OPTIONS == BLACK_PIECES \ {"p"}

UpperCase == {"A", "B", "C", "D", "E", "F", "G", "H", "I", "J", "K", "L", "M",
              "N", "O", "P", "Q", "R", "S", "T", "U", "V", "W", "X", "Y", "Z"}
LowerCase == {"a", "b", "c", "d", "e", "f", "g", "h", "i", "j", "k", "l", "m",
              "n", "o", "p", "q", "r", "s", "t", "u", "v", "w", "x", "y", "z"}

_colour_of_piece(piece) ==
    IF piece \in UpperCase THEN "w"
    ELSE IF piece \in LowerCase THEN "b"
    ELSE NoColour

\* ------------------------------------------------------------------------
\* BoardSquare
\* ------------------------------------------------------------------------
NoSquare == [file_ |-> 0, rank_ |-> 0]

BoardSquare(f, r) == [file_ |-> f, rank_ |-> r]

AllSquares == {BoardSquare(f, r) : f \in 1..8, r \in 1..8}

\* BoardSquare.delta: the offset square, or None outside the board
delta(square, file_delta, rank_delta) ==
    LET f == square.file_ + file_delta
        r == square.rank_ + rank_delta
    IN IF r < 1 \/ r > 8 \/ f < 1 \/ f > 8 THEN NoSquare
       ELSE BoardSquare(f, r)

\* delta raises: chr() of a code outside 0..255 is a ValueError, which the
\* except clause for InvalidSquareException does not catch; ord("a") is 97
delta_raises(square, file_delta, rank_delta) ==
    (96 + square.file_) + file_delta \notin 0..255

a1 == BoardSquare(1, 1)
b1 == BoardSquare(2, 1)
c1 == BoardSquare(3, 1)
d1 == BoardSquare(4, 1)
e1 == BoardSquare(5, 1)
f1 == BoardSquare(6, 1)
g1 == BoardSquare(7, 1)
h1 == BoardSquare(8, 1)
a8 == BoardSquare(1, 8)
b8 == BoardSquare(2, 8)
c8 == BoardSquare(3, 8)
d8 == BoardSquare(4, 8)
e8 == BoardSquare(5, 8)
f8 == BoardSquare(6, 8)
g8 == BoardSquare(7, 8)
h8 == BoardSquare(8, 8)

\* ------------------------------------------------------------------------
\* BasicMove
\* ------------------------------------------------------------------------
BasicMove(start, end, promotion) ==
    [start |-> start, end |-> end, promotion |-> promotion]

NoMove == BasicMove(NoSquare, NoSquare, NoPromotion)

\* ------------------------------------------------------------------------
\* _Board: lookups on the squares of a board
\* ------------------------------------------------------------------------
piece_at_board_square(squares, board_square) ==
    squares[9 - board_square.rank_][board_square.file_]

\* squares[coords] = piece, for the coordinates of a board square
SetSquare(squares, board_square, piece) ==
    [squares EXCEPT ![9 - board_square.rank_][board_square.file_] = piece]

\* ------------------------------------------------------------------------
\* Piece behaviours (src/pieces.py)
\* ------------------------------------------------------------------------
RECURSIVE _generate_ends(_, _, _, _, _, _, _)
_generate_ends(fen, squares, start, rank_delta, file_delta, limit, can_take) ==
    IF limit = 0 THEN {}
    ELSE LET position == delta(start, file_delta, rank_delta)
         IN IF position = NoSquare THEN {}
            ELSE LET end_piece == piece_at_board_square(squares, position)
                 IN IF end_piece = NoPiece
                    THEN {position} \cup
                         _generate_ends(fen, squares, position, rank_delta,
                                        file_delta, limit - 1, can_take)
                    ELSE IF can_take /\
                            _colour_of_piece(end_piece) # _colour_of_piece(fen)
                         THEN {position}
                         ELSE {}

\* a knight that moves like a king
Knight_move_squares_one_step(fen, squares, start) ==
    UNION {_generate_ends(fen, squares, start, d[1], d[2], 1, TRUE) :
           d \in {dd \in {-1, 0, 1} \X {-1, 0, 1} : dd # <<0, 0>>}}

Knight_move_squares(fen, squares, start) ==
    UNION {_generate_ends(fen, squares, start, one, two, 1, TRUE) \cup
           _generate_ends(fen, squares, start, two, one, 1, TRUE) :
           one \in {-1, 1}, two \in {-2, 2}}

Rook_move_squares(fen, squares, start) ==
    _generate_ends(fen, squares, start, 0, 1, 8, TRUE) \cup
    _generate_ends(fen, squares, start, 0, -1, 8, TRUE) \cup
    _generate_ends(fen, squares, start, 1, 0, 8, TRUE) \cup
    _generate_ends(fen, squares, start, -1, 0, 8, TRUE)

Bishop_move_squares(fen, squares, start) ==
    UNION {_generate_ends(fen, squares, start, one, two, 8, TRUE) :
           one \in {-1, 1}, two \in {-1, 1}}

\* a queen that never captures
Queen_move_squares_no_capture(fen, squares, start) ==
    UNION {_generate_ends(fen, squares, start, d[1], d[2], 8, FALSE) :
           d \in {dd \in {-1, 0, 1} \X {-1, 0, 1} : dd # <<0, 0>>}}

Queen_move_squares(fen, squares, start) ==
    UNION {_generate_ends(fen, squares, start, d[1], d[2], 8, TRUE) :
           d \in {dd \in {-1, 0, 1} \X {-1, 0, 1} : dd # <<0, 0>>}}

King_move_squares(fen, squares, start) ==
    UNION {_generate_ends(fen, squares, start, d[1], d[2], 1, TRUE) :
           d \in {dd \in {-1, 0, 1} \X {-1, 0, 1} : dd # <<0, 0>>}}

\* a pawn whose advance may capture
Pawn_move_squares_can_take(fen, squares, start) ==
    LET rank_delta == IF fen = "p" THEN -1 ELSE IF fen = "P" THEN 1 ELSE 0
        starting_rank == (fen = "p" /\ start.rank_ = 7) \/
                         (fen = "P" /\ start.rank_ = 2)
        limit == IF starting_rank THEN 2 ELSE 1
    IN _generate_ends(fen, squares, start, rank_delta, 0, limit, TRUE)

Pawn_move_squares(fen, squares, start) ==
    LET rank_delta == IF fen = "p" THEN -1 ELSE IF fen = "P" THEN 1 ELSE 0
        starting_rank == (fen = "p" /\ start.rank_ = 7) \/
                         (fen = "P" /\ start.rank_ = 2)
        limit == IF starting_rank THEN 2 ELSE 1
    IN _generate_ends(fen, squares, start, rank_delta, 0, limit, FALSE)

\* a pawn that threatens its forward diagonals whatever stands on them
Pawn_threat_squares_any_occupancy(fen, squares, start) ==
    LET rank_delta == IF fen = "p" THEN -1 ELSE IF fen = "P" THEN 1 ELSE 0
    IN {delta(start, one, rank_delta) : one \in {-1, 1}} \ {NoSquare}

Pawn_threat_squares(fen, squares, start) ==
    LET rank_delta == IF fen = "p" THEN -1 ELSE IF fen = "P" THEN 1 ELSE 0
    IN UNION {_generate_ends(fen, squares, start, rank_delta, one, 1, TRUE) :
              one \in {-1, 1}}

\* PIECE_MAP[fen]().move_squares(board, start)
move_squares(fen, squares, start) ==
    CASE fen \in {"n", "N"} -> Knight_move_squares(fen, squares, start)
      [] fen \in {"r", "R"} -> Rook_move_squares(fen, squares, start)
      [] fen \in {"b", "B"} -> Bishop_move_squares(fen, squares, start)
      [] fen \in {"q", "Q"} -> Queen_move_squares(fen, squares, start)
      [] fen \in {"p", "P"} -> Pawn_move_squares(fen, squares, start)
      [] fen \in {"k", "K"} -> King_move_squares(fen, squares, start)

\* PIECE_MAP[fen]().threat_squares(board, start)
threat_squares(fen, squares, start) ==
    CASE fen \in {"p", "P"} -> Pawn_threat_squares(fen, squares, start)
      [] OTHER -> move_squares(fen, squares, start)

\* ------------------------------------------------------------------------
\* _Board.check_status and _Board._threat_squares
\* ------------------------------------------------------------------------
\* position of a square in the scan "for file_ ... for rank_ ..."
ScanIndex(square) == (square.file_ - 1) * 8 + square.rank_

\* the square the scan leaves in white_king_square / black_king_square:
\* the last square holding that king, None when there is none
king_square(squares, king) ==
    LET found == {s \in AllSquares : piece_at_board_square(squares, s) = king}
    IN IF found = {} THEN NoSquare
       ELSE CHOOSE s \in found : \A t \in found : ScanIndex(t) <= ScanIndex(s)

_threat_squares(squares, color) ==
    UNION {threat_squares(piece_at_board_square(squares, s), squares, s) :
           s \in {t \in AllSquares :
                    /\ piece_at_board_square(squares, t) # NoPiece
                    /\ _colour_of_piece(piece_at_board_square(squares, t))
                         = color}}

check_status(squares) ==
    LET white_threats == _threat_squares(squares, "w")
        black_threats == _threat_squares(squares, "b")
    IN {c \in {"w"} : king_square(squares, "K") \in black_threats} \cup
       {c \in {"b"} : king_square(squares, "k") \in white_threats}

\* ------------------------------------------------------------------------
\* _Board.board_from_move
\* ------------------------------------------------------------------------
Abs(n) == IF n < 0 THEN -n ELSE n

\* the king move is a castling move for the rook relocation
IsCastlingStep(piece, move) ==
    piece \in {"k", "K"} /\ Abs(move.end.file_ - move.start.file_) = 2

rook_from(move) ==
    CASE move.end = c1 -> a1
      [] move.end = g1 -> h1
      [] move.end = c8 -> a8
      [] move.end = g8 -> h1
      [] OTHER -> NoSquare

rook_to(move) ==
    CASE move.end = c1 -> d1
      [] move.end = g1 -> f1
      [] move.end = c8 -> d8
      [] move.end = g8 -> f1
      [] OTHER -> NoSquare

\* an en-passant capture that looks for the pawn on the far side of the target
taken_pawn_square_south(move, en_passant) ==
    IF en_passant.rank_ = 3 THEN delta(move.end, 0, -1)
    ELSE IF en_passant.rank_ = 6 THEN delta(move.end, 0, 1)
    ELSE NoSquare

\* the square of the pawn an en-passant capture removes
taken_pawn_square(move, en_passant) ==
    IF en_passant.rank_ = 3 THEN delta(move.end, 0, 1)
    ELSE IF en_passant.rank_ = 6 THEN delta(move.end, 0, -1)
    ELSE NoSquare

\* board_from_move raises: rook_from unbound, or the bare "raise Exception()"
board_from_move_raises(squares, move, en_passant) ==
    LET piece == IF move.promotion # NoPromotion THEN move.promotion
                 ELSE piece_at_board_square(squares, move.start)
    IN \/ IsCastlingStep(piece, move) /\ rook_from(move) = NoSquare
       \/ move.end = en_passant /\ en_passant.rank_ \notin {3, 6}

\* a board_from_move that ignores move.promotion and places the pawn
board_from_move_unpromoted(squares, move, en_passant) ==
    LET piece == piece_at_board_square(squares, move.start)
        placed == SetSquare(SetSquare(squares, move.end, piece),
                            move.start, NoPiece)
        castled == IF IsCastlingStep(piece, move) /\ rook_from(move) # NoSquare
                   THEN SetSquare(SetSquare(placed, rook_from(move), NoPiece),
                                  rook_to(move),
                                  piece_at_board_square(placed, rook_from(move)))
                   ELSE placed
    IN IF move.end = en_passant /\ en_passant.rank_ \in {3, 6}
       THEN SetSquare(castled, taken_pawn_square(move, en_passant), NoPiece)
       ELSE castled

\* the squares of the new board (when board_from_move does not raise)
board_from_move(squares, move, en_passant) ==
    LET piece == IF move.promotion # NoPromotion THEN move.promotion
                 ELSE piece_at_board_square(squares, move.start)
        placed == SetSquare(SetSquare(squares, move.end, piece),
                            move.start, NoPiece)
        castled == IF IsCastlingStep(piece, move) /\ rook_from(move) # NoSquare
                   THEN SetSquare(SetSquare(placed, rook_from(move), NoPiece),
                                  rook_to(move),
                                  piece_at_board_square(placed, rook_from(move)))
                   ELSE placed
    IN IF move.end = en_passant /\ en_passant.rank_ \in {3, 6}
       THEN SetSquare(castled, taken_pawn_square(move, en_passant), NoPiece)
       ELSE castled

\* ------------------------------------------------------------------------
\* Text: "%d", int(), split and join
\* ------------------------------------------------------------------------
Digits == <<"0", "1", "2", "3", "4", "5", "6", "7", "8", "9">>
Files == <<"a", "b", "c", "d", "e", "f", "g", "h">>

IndexOf(seq, x) ==
    IF \E i \in 1..Len(seq) : seq[i] = x
    THEN CHOOSE i \in 1..Len(seq) : seq[i] = x
    ELSE 0

\* "%d" % n, for n >= 0
RECURSIVE IntToText(_)
IntToText(n) ==
    IF n < 10 THEN <<Digits[n + 1]>>
    ELSE IntToText(n \div 10) \o <<Digits[(n % 10) + 1]>>

IsDigitText(text) ==
    Len(text) > 0 /\ \A i \in 1..Len(text) : IndexOf(Digits, text[i]) # 0

\* int(text), for a text of decimal digits
RECURSIVE TextToInt(_)
TextToInt(text) ==
    IF Len(text) = 0 THEN 0
    ELSE 10 * TextToInt(SubSeq(text, 1, Len(text) - 1))
         + (IndexOf(Digits, text[Len(text)]) - 1)

\* text.split(sep)
RECURSIVE Split(_, _)
Split(text, sep) ==
    IF \A i \in 1..Len(text) : text[i] # sep THEN <<text>>
    ELSE LET i == CHOOSE j \in 1..Len(text) :
                     text[j] = sep /\ \A k \in 1..(j - 1) : text[k] # sep
         IN <<SubSeq(text, 1, i - 1)>> \o
            Split(SubSeq(text, i + 1, Len(text)), sep)

\* sep.join(texts)
RECURSIVE Join(_, _)
Join(texts, sep) ==
    IF Len(texts) = 0 THEN <<>>
    ELSE IF Len(texts) = 1 THEN texts[1]
    ELSE texts[1] \o <<sep>> \o Join(Tail(texts), sep)

\* ------------------------------------------------------------------------
\* _Board.fen and _Board.__init__(fen=...)
\* ------------------------------------------------------------------------
RECURSIVE row_fen(_, _, _)
row_fen(row, i, empty_count) ==
    IF i > Len(row)
    THEN IF empty_count > 0 THEN IntToText(empty_count) ELSE <<>>
    ELSE IF row[i] = NoPiece THEN row_fen(row, i + 1, empty_count + 1)
    ELSE (IF empty_count > 0 THEN IntToText(empty_count) ELSE <<>>)
         \o <<row[i]>> \o row_fen(row, i + 1, 0)

Board_fen(squares) ==
    Join([r \in 1..Len(squares) |-> row_fen(squares[r], 1, 0)], "/")

RECURSIVE row_from_fen(_)
row_from_fen(line) ==
    IF Len(line) = 0 THEN <<>>
    ELSE LET char == Head(line)
         IN (IF char \in {"1", "2", "3", "4", "5", "6", "7", "8"}
             THEN [k \in 1..TextToInt(<<char>>) |-> NoPiece]
             ELSE <<char>>)
            \o row_from_fen(Tail(line))

Board_from_fen(fen) ==
    LET fen_lines == Split(fen, "/")
    IN [r \in 1..Len(fen_lines) |-> row_from_fen(fen_lines[r])]

\* the two assertions of _Board.__init__ (an AssertionError when one fails)
Board_from_fen_raises(fen) ==
    LET squares == Board_from_fen(fen)
    IN \/ \E r \in 1..Len(squares) : Len(squares[r]) # 8
       \/ Len(squares) # 8

\* _Board(): the standard starting layout
Board_default ==
    <<  <<"r", "n", "b", "q", "k", "b", "n", "r">>,
        [c \in 1..8 |-> "p"],
        [c \in 1..8 |-> NoPiece],
        [c \in 1..8 |-> NoPiece],
        [c \in 1..8 |-> NoPiece],
        [c \in 1..8 |-> NoPiece],
        [c \in 1..8 |-> "P"],
        <<"R", "N", "B", "Q", "K", "B", "N", "R">>  >>

\* ------------------------------------------------------------------------
\* _CastlingState
\* ------------------------------------------------------------------------
\* a _CastlingState that keeps its defaults whatever the text says
CastlingState_defaults(fen) ==
    [white_kingside |-> TRUE, white_queenside |-> TRUE,
     black_kingside |-> TRUE, black_queenside |-> TRUE]

CastlingState(fen) ==
    [white_kingside  |-> \E i \in 1..Len(fen) : fen[i] = "K",
     white_queenside |-> \E i \in 1..Len(fen) : fen[i] = "Q",
     black_kingside  |-> \E i \in 1..Len(fen) : fen[i] = "k",
     black_queenside |-> \E i \in 1..Len(fen) : fen[i] = "q"]

CastlingState_fen(castling) ==
    LET retval == (IF castling.white_kingside THEN <<"K">> ELSE <<>>) \o
                  (IF castling.white_queenside THEN <<"Q">> ELSE <<>>) \o
                  (IF castling.black_kingside THEN <<"k">> ELSE <<>>) \o
                  (IF castling.black_queenside THEN <<"q">> ELSE <<>>)
    IN IF Len(retval) = 0 THEN <<"-">> ELSE retval

\* ------------------------------------------------------------------------
\* Game.__init__(fen) and Game.fen
\* ------------------------------------------------------------------------
\* a square written rank first
BoardSquare_str_rank_first(square) ==
    IntToText(square.rank_) \o <<Files[square.file_]>>

\* BoardSquare.__str__
BoardSquare_str(square) == <<Files[square.file_]>> \o IntToText(square.rank_)

\* BoardSquare(file_rank) for a two-character code; None stands for the
\* InvalidSquareException of a code outside a..h, 1..8
BoardSquare_from_text(file_rank) ==
    LET f == IndexOf(Files, file_rank[1])
        r == TextToInt(<<file_rank[2]>>)
    IN IF r < 1 \/ r > 8 \/ f = 0 THEN NoSquare ELSE BoardSquare(f, r)

\* a Game as the values of its fields; board is the squares of its _Board
Game_init(fen) ==
    LET fields == Split(fen, " ")
    IN [board      |-> Board_from_fen(fields[1]),
        active     |-> fields[2][1],
        castling   |-> CastlingState(fields[3]),
        en_passant |-> IF fields[4] = <<"-">> THEN NoSquare
                       ELSE BoardSquare_from_text(fields[4]),
        halfmove   |-> TextToInt(fields[5]),
        fullmove   |-> TextToInt(fields[6])]

Game_fen(g) ==
    LET en_passant_str == IF g.en_passant = NoSquare THEN <<"-">>
                          ELSE BoardSquare_str(g.en_passant)
    IN Join(<<Board_fen(g.board), <<g.active>>, CastlingState_fen(g.castling),
              en_passant_str, IntToText(g.halfmove), IntToText(g.fullmove)>>,
            " ")

\* ------------------------------------------------------------------------
\* Game.valid_ends
\* ------------------------------------------------------------------------
OK == "ok"

other_color(color) == IF color = "w" THEN "b" ELSE "w"

\* a castling test that looks at occupancy only
_can_castle_unoccupied(squares, opposing_threats, square) ==
    piece_at_board_square(squares, square) = NoPiece

_can_castle_through_or_to(squares, opposing_threats, square) ==
    /\ piece_at_board_square(squares, square) = NoPiece
    /\ square \notin opposing_threats

\* the destinations the castling block of valid_ends adds
castling_ends(g, start) ==
    LET piece == piece_at_board_square(g.board, start)
        color == _colour_of_piece(piece)
        opposing_threats == _threat_squares(g.board, other_color(color))
        can(square) == _can_castle_through_or_to(g.board, opposing_threats,
                                                 square)
    IN IF piece = "k" \/ (piece = "K" /\ start \notin opposing_threats)
       THEN IF piece = "k"
            THEN {s \in {g8} : g.castling.black_kingside /\ can(f8) /\ can(g8)}
                 \cup
                 {s \in {c8} : g.castling.black_queenside
                               /\ can(b8) /\ can(c8) /\ can(d8)}
            ELSE {s \in {g1} : g.castling.white_kingside /\ can(f1) /\ can(g1)}
                 \cup
                 {s \in {c1} : g.castling.white_queenside
                               /\ can(b1) /\ can(c1) /\ can(d1)}
       ELSE {}

\* the set "ends" of valid_ends before the check filter
candidate_ends(g, start) ==
    LET piece == piece_at_board_square(g.board, start)
        moves == move_squares(piece, g.board, start)
        threats == threat_squares(piece, g.board, start)
        taking == {t \in threats \ moves :
                     \/ piece_at_board_square(g.board, t) # NoPiece
                     \/ (g.en_passant = t /\ piece \in {"p", "P"})}
    IN moves \cup taking \cup castling_ends(g, start)

\* a valid_ends without the test of whose turn it is
valid_ends_raises_any_turn(g, start, check_check) ==
    LET piece == piece_at_board_square(g.board, start)
    IN IF piece = NoPiece THEN "NoPieceAtSquareException"
       ELSE IF check_check /\ \E end \in candidate_ends(g, start) :
                 board_from_move_raises(g.board,
                     BasicMove(start, end, NoPromotion), g.en_passant)
       THEN "Exception"
       ELSE OK

\* the exception valid_ends raises, OK when it returns
valid_ends_raises(g, start, check_check) ==
    LET piece == piece_at_board_square(g.board, start)
    IN IF piece = NoPiece THEN "NoPieceAtSquareException"
       ELSE IF g.active # _colour_of_piece(piece) THEN "NotYourTurnException"
       ELSE IF check_check /\ \E end \in candidate_ends(g, start) :
                 board_from_move_raises(g.board,
                     BasicMove(start, end, NoPromotion), g.en_passant)
       THEN "Exception"
       ELSE OK

\* the set valid_ends returns (when it does not raise)
valid_ends(g, start, check_check) ==
    IF check_check
    THEN {end \in candidate_ends(g, start) :
            g.active \notin check_status(
                board_from_move(g.board, BasicMove(start, end, NoPromotion),
                                g.en_passant))}
    ELSE candidate_ends(g, start)

\* ------------------------------------------------------------------------
\* Game.validate_move
\* ------------------------------------------------------------------------
\* a promotion test that knows the white pawn only
_is_promotion_move_white_only(g, move) ==
    LET piece == piece_at_board_square(g.board, move.start)
    IN piece = "P" /\ move.end.rank_ = 8

_is_promotion_move(g, move) ==
    LET piece == piece_at_board_square(g.board, move.start)
    IN (piece = "p" /\ move.end.rank_ = 1) \/ (piece = "P" /\ move.end.rank_ = 8)

\* the promotion branch of validate_move (lines 460-470)
validate_promotion(g, move) ==
    LET piece == piece_at_board_square(g.board, move.start)
        colour == _colour_of_piece(piece)
    IN IF move.promotion # NoPromotion
       THEN IF ~_is_promotion_move(g, move)
            THEN "InvalidPromotionDataException"
            ELSE IF colour = "w" /\ move.promotion \notin WHITE_PROMOTION_OPTIONS
            THEN "InvalidPromotionDataException"
            ELSE IF colour = "b" /\ move.promotion \notin BLACK_PROMOTION_OPTIONS
            THEN "InvalidPromotionDataException"
            ELSE OK
       ELSE IF _is_promotion_move(g, move)
            THEN "MoveMissingPromotionException"
            ELSE OK

\* a validate_move without the test of the end square
validate_move_any_end(g, move) ==
    LET ends_raises == valid_ends_raises(g, move.start, TRUE)
    IN IF piece_at_board_square(g.board, move.start) = NoPiece
       THEN "NoPieceAtSquareException"
       ELSE IF ends_raises # OK
       THEN ends_raises
       ELSE validate_promotion(g, move)

\* the exception validate_move raises, OK when it returns
validate_move(g, move) ==
    LET ends_raises == valid_ends_raises(g, move.start, TRUE)
    IN IF piece_at_board_square(g.board, move.start) = NoPiece
       THEN "NoPieceAtSquareException"
       ELSE IF ends_raises # OK
       THEN ends_raises
       ELSE IF move.end \notin valid_ends(g, move.start, TRUE)
       THEN "InvalidMoveException"
       ELSE validate_promotion(g, move)

\* a validate_move whose valid_ends tries the move on the receiver's own
\* squares instead of on a copy
receiver_after_validate_in_place(g, move) ==
    [g EXCEPT !.board = board_from_move(g.board, move, g.en_passant)]

\* the receiver's fields once validate_move has run: it only reads them,
\* and the boards valid_ends tries moves on are deep copies
receiver_after_validate(g, move) == g

\* ------------------------------------------------------------------------
\* Game.move: the fields of the returned Game
\* ------------------------------------------------------------------------
\* castling bookkeeping with the rook files the wrong way round
castling_after_move_swapped(castling, piece, move) ==
    IF piece = "r"
    THEN IF move.start.file_ = 8
         THEN [castling EXCEPT !.black_queenside = FALSE]
         ELSE IF move.start.file_ = 1
         THEN [castling EXCEPT !.black_kingside = FALSE]
         ELSE castling
    ELSE IF piece = "k"
    THEN [castling EXCEPT !.black_queenside = FALSE, !.black_kingside = FALSE]
    ELSE IF piece = "R"
    THEN IF move.start.file_ = 8
         THEN [castling EXCEPT !.white_queenside = FALSE]
         ELSE IF move.start.file_ = 1
         THEN [castling EXCEPT !.white_kingside = FALSE]
         ELSE castling
    ELSE IF piece = "K"
    THEN [castling EXCEPT !.white_queenside = FALSE, !.white_kingside = FALSE]
    ELSE castling

castling_after_move(castling, piece, move) ==
    IF piece = "r"
    THEN IF move.start.file_ = 1
         THEN [castling EXCEPT !.black_queenside = FALSE]
         ELSE IF move.start.file_ = 8
         THEN [castling EXCEPT !.black_kingside = FALSE]
         ELSE castling
    ELSE IF piece = "k"
    THEN [castling EXCEPT !.black_queenside = FALSE, !.black_kingside = FALSE]
    ELSE IF piece = "R"
    THEN IF move.start.file_ = 1
         THEN [castling EXCEPT !.white_queenside = FALSE]
         ELSE IF move.start.file_ = 8
         THEN [castling EXCEPT !.white_kingside = FALSE]
         ELSE castling
    ELSE IF piece = "K"
    THEN [castling EXCEPT !.white_queenside = FALSE, !.white_kingside = FALSE]
    ELSE castling

halfmove_after_move(halfmove, piece) ==
    IF piece = "p" \/ piece = "P" THEN 0 ELSE halfmove + 1

\* an en-passant target set by any piece that moves two ranks
en_passant_after_move_any_piece(piece, move) ==
    IF move.end.rank_ - move.start.rank_ = 2
    THEN delta(move.start, 0, 1)
    ELSE IF move.end.rank_ - move.start.rank_ = -2
    THEN delta(move.start, 0, -1)
    ELSE NoSquare

en_passant_after_move(piece, move) ==
    IF piece = "p" \/ piece = "P"
    THEN IF move.end.rank_ - move.start.rank_ = 2
         THEN delta(move.start, 0, 1)
         ELSE IF move.end.rank_ - move.start.rank_ = -2
         THEN delta(move.start, 0, -1)
         ELSE NoSquare
    ELSE NoSquare

active_after_move(active) == IF active = "b" THEN "w" ELSE "b"

\* a full-move number that counts every ply
fullmove_every_ply(active, fullmove) == fullmove + 1

fullmove_after_move(active, fullmove) ==
    IF active = "b" THEN fullmove + 1 ELSE fullmove

Game_move(g, move) ==
    LET piece == piece_at_board_square(g.board, move.start)
        new_game == Game_init(Game_fen(g))
    IN [board      |-> board_from_move(new_game.board, move, g.en_passant),
        active     |-> active_after_move(g.active),
        castling   |-> castling_after_move(new_game.castling, piece, move),
        en_passant |-> en_passant_after_move(piece, move),
        halfmove   |-> halfmove_after_move(new_game.halfmove, piece),
        fullmove   |-> fullmove_after_move(g.active, new_game.fullmove)]

\* ------------------------------------------------------------------------
\* Game._can_move, Game.is_checkmate, Game.is_stalemate
\* ------------------------------------------------------------------------
\* a _can_move that does what its docstring says ("True if the current side
\* cannot move")
_can_move_docstring(g) ==
    \A square \in AllSquares :
        LET piece == piece_at_board_square(g.board, square)
        IN \/ piece = NoPiece
           \/ _colour_of_piece(piece) # g.active
           \/ valid_ends(g, square, TRUE) = {}

_can_move(g) ==
    \E square \in AllSquares :
        LET piece == piece_at_board_square(g.board, square)
        IN /\ piece # NoPiece
           /\ _colour_of_piece(piece) = g.active
           /\ valid_ends(g, square, TRUE) # {}

is_checkmate(g) ==
    IF g.active \notin check_status(g.board) THEN FALSE ELSE ~_can_move(g)

is_stalemate(g) ==
    IF g.active \in check_status(g.board) THEN FALSE ELSE ~_can_move(g)

\* ------------------------------------------------------------------------
\* The positions games start from: Game(fen) for each of these texts
\* ------------------------------------------------------------------------
\* r3k2r/8/8/8/8/8/8/R3K2R w KQkq - 0 1
FEN_CASTLING ==
    <<"r", "3", "k", "2", "r", "/", "8", "/", "8", "/", "8", "/", "8", "/",
      "8", "/", "8", "/", "R", "3", "K", "2", "R", " ", "w", " ", "K", "Q",
      "k", "q", " ", "-", " ", "0", " ", "1">>

\* r3k2r/8/8/8/8/8/4R3/4K3 b kq - 0 1
FEN_BLACK_IN_CHECK ==
    <<"r", "3", "k", "2", "r", "/", "8", "/", "8", "/", "8", "/", "8", "/",
      "8", "/", "4", "R", "3", "/", "4", "K", "3", " ", "b", " ", "k", "q",
      " ", "-", " ", "0", " ", "1">>

\* 4rk2/8/8/8/8/8/8/R3K2R w KQ - 0 1
FEN_CASTLING_OUT_OF_CHECK ==
    <<"4", "r", "k", "2", "/", "8", "/", "8", "/", "8", "/", "8", "/", "8",
      "/", "8", "/", "R", "3", "K", "2", "R", " ", "w", " ", "K", "Q", " ",
      "-", " ", "0", " ", "1">>

\* 3rkr2/8/8/8/8/8/8/R3K2R w KQ - 0 1
FEN_CASTLING_THROUGH_CHECK ==
    <<"3", "r", "k", "r", "2", "/", "8", "/", "8", "/", "8", "/", "8", "/",
      "8", "/", "8", "/", "R", "3", "K", "2", "R", " ", "w", " ", "K", "Q",
      " ", "-", " ", "0", " ", "1">>

\* 4k3/8/8/8/8/6n1/8/4K2R b K - 0 1
FEN_ROOK_TAKEN ==
    <<"4", "k", "3", "/", "8", "/", "8", "/", "8", "/", "8", "/", "6", "n",
      "1", "/", "8", "/", "4", "K", "2", "R", " ", "b", " ", "K", " ", "-",
      " ", "0", " ", "1">>

\* r7/4k2P/8/8/8/8/8/4K3 w - - 0 1
FEN_PROMOTION ==
    <<"r", "7", "/", "4", "k", "2", "P", "/", "8", "/", "8", "/", "8", "/",
      "8", "/", "8", "/", "4", "K", "3", " ", "w", " ", "-", " ", "-", " ",
      "0", " ", "1">>

\* 4k3/8/8/8/p7/8/1P6/4K3 w - - 0 1
FEN_EN_PASSANT ==
    <<"4", "k", "3", "/", "8", "/", "8", "/", "8", "/", "p", "7", "/", "8",
      "/", "1", "P", "6", "/", "4", "K", "3", " ", "w", " ", "-", " ", "-",
      " ", "0", " ", "1">>

\* rr2k3/8/8/8/8/8/8/K7 w - - 0 1
FEN_CHECKMATE ==
    <<"r", "r", "2", "k", "3", "/", "8", "/", "8", "/", "8", "/", "8", "/",
      "8", "/", "8", "/", "K", "7", " ", "w", " ", "-", " ", "-", " ", "0",
      " ", "1">>

\* r1r5/1K6/7r/8/8/8/8/8 w - - 0 1
FEN_STALEMATE ==
    <<"r", "1", "r", "5", "/", "1", "K", "6", "/", "7", "r", "/", "8", "/",
      "8", "/", "8", "/", "8", "/", "8", " ", "w", " ", "-", " ", "-", " ",
      "0", " ", "1">>

\* 4k3/8/8/8/8/1r6/r7/7K b - - 0 1
FEN_MATE_IN_ONE ==
    <<"4", "k", "3", "/", "8", "/", "8", "/", "8", "/", "8", "/", "1", "r",
      "6", "/", "r", "7", "/", "7", "K", " ", "b", " ", "-", " ", "-", " ",
      "0", " ", "1">>

\* 4k3/7P/8/8/8/8/8/4K3 w - - 0 1
FEN_WHITE_PAWN_H7 ==
    <<"4", "k", "3", "/", "7", "P", "/", "8", "/", "8", "/", "8", "/", "8",
      "/", "8", "/", "4", "K", "3", " ", "w", " ", "-", " ", "-", " ", "0",
      " ", "1">>

\* 4k3/7p/8/8/8/8/7p/4K3 b - - 0 1
FEN_BLACK_PAWN_H2 ==
    <<"4", "k", "3", "/", "7", "p", "/", "8", "/", "8", "/", "8", "/", "8",
      "/", "7", "p", "/", "4", "K", "3", " ", "b", " ", "-", " ", "-", " ",
      "0", " ", "1">>

InitialFens ==
    {FEN_CASTLING, FEN_BLACK_IN_CHECK, FEN_CASTLING_OUT_OF_CHECK,
     FEN_CASTLING_THROUGH_CHECK, FEN_ROOK_TAKEN, FEN_PROMOTION, FEN_EN_PASSANT}

\* the positions is_checkmate() and is_stalemate() are asked about, and the
\* positions moves lead to from them
MateFens ==
    {FEN_CHECKMATE, FEN_STALEMATE, FEN_MATE_IN_ONE, FEN_BLACK_IN_CHECK}

\* positions for the moves of single pieces
\* 4k3/1p6/8/P7/8/8/8/4K3 b - - 0 1
FEN_EN_PASSANT_BLACK ==
    <<"4", "k", "3", "/", "1", "p", "6", "/", "8", "/", "P", "7", "/", "8",
      "/", "8", "/", "8", "/", "4", "K", "3", " ", "b", " ", "-", " ", "-",
      " ", "0", " ", "1">>

\* 8/8/8/3k1n2/8/8/4P3/4K3 w - - 0 1
FEN_KNIGHT_NEAR_TARGET ==
    <<"8", "/", "8", "/", "8", "/", "3", "k", "1", "n", "2", "/", "8", "/",
      "8", "/", "4", "P", "3", "/", "4", "K", "3", " ", "w", " ", "-", " ",
      "-", " ", "0", " ", "1">>

\* 4k3/8/8/8/8/Pr6/PPP5/4K3 w - - 0 1
FEN_PAWNS_BLOCKED ==
    <<"4", "k", "3", "/", "8", "/", "8", "/", "8", "/", "8", "/", "P", "r",
      "6", "/", "P", "P", "P", "5", "/", "4", "K", "3", " ", "w", " ", "-",
      " ", "-", " ", "0", " ", "1">>

\* 4k3/8/8/8/R7/8/8/R3K3 w Q - 0 1
FEN_TWO_ROOKS_ON_FILE_A ==
    <<"4", "k", "3", "/", "8", "/", "8", "/", "8", "/", "R", "7", "/", "8",
      "/", "8", "/", "R", "3", "K", "3", " ", "w", " ", "Q", " ", "-", " ",
      "0", " ", "1">>

\* k7/3p4/8/8/3Q4/8/1B6/4K3 w - - 0 1
FEN_QUEEN_AND_BISHOP ==
    <<"k", "7", "/", "3", "p", "4", "/", "8", "/", "8", "/", "3", "Q", "4",
      "/", "8", "/", "1", "B", "6", "/", "4", "K", "3", " ", "w", " ", "-",
      " ", "-", " ", "0", " ", "1">>

PieceFens ==
    {FEN_EN_PASSANT, FEN_EN_PASSANT_BLACK, FEN_KNIGHT_NEAR_TARGET,
     FEN_PAWNS_BLOCKED, FEN_TWO_ROOKS_ON_FILE_A, FEN_QUEEN_AND_BISHOP,
     FEN_WHITE_PAWN_H7, FEN_BLACK_PAWN_H2}

\* the positions the failing calls are tried on
ValidateFens == {FEN_WHITE_PAWN_H7, FEN_BLACK_PAWN_H2}

\* the promotion data a caller passes to BasicMove
PromotionInputs == {NoPromotion, "Q", "N", "K", "P", "q"}

\* the start and end squares a caller passes to the calls that may fail:
\* the files d, e, h and the ranks 1, 2, 7, 8
ProbeSquares == {sq \in AllSquares : sq.file_ \in {4, 5, 8}
                                     /\ sq.rank_ \in {1, 2, 7, 8}}

\* ------------------------------------------------------------------------
\* State: Game objects and the mutable objects they refer to
\* ------------------------------------------------------------------------
\* A Game object holds the address of the squares list of its board and the
\* address of its _CastlingState; its other fields are immutable values.
\*   squares_heap   the squares lists, by address
\*   castling_heap  the _CastlingState objects, by address
\*   self           the receiver of the last move() call
\*   self_fen       self.fen() as it was before that call
\*   m              the move passed to that call
\*   new_game       the Game that call returned (the constructed Game at first)
\*   plies          the number of successful move() calls so far
\*   raised         the exception that call raised, OK when it returned
\*   fen_text       the text the first Game was constructed from
\*   fen_out        what fen() returned for that Game, NotCalled before
VARIABLES squares_heap, castling_heap, self, self_fen, m, new_game, plies,
          raised, fen_text, fen_out, delta_call

vars == <<squares_heap, castling_heap, self, self_fen, m, new_game, plies,
          raised, fen_text, fen_out, delta_call>>

\* delta_call when no BoardSquare.delta call is being followed
NoDeltaCall == <<>>

NotCalled == <<>>

Addr == {0, 1}
Unallocated == <<>>

\* the fields of the Game object obj, its references followed
Deref(obj) ==
    [obj EXCEPT !.board = squares_heap[obj.board],
                !.castling = castling_heap[obj.castling]]

\* a move() that edits the receiver's squares in place
shared_squares(addr) == addr

\* the address of the squares a new board is built on: Game(self.fen()) and
\* copy.deepcopy allocate a list that is not the receiver's
fresh_squares(addr) == 1 - addr

\* the address of the _CastlingState of the Game built by Game(self.fen())
fresh_castling(addr) == 1 - addr

\* the state after Game(fen)
Constructed(fen) ==
    LET game == Game_init(fen)
    IN /\ ~Board_from_fen_raises(Split(fen, " ")[1])
       /\ squares_heap = [a \in Addr |-> IF a = 0 THEN game.board
                                        ELSE Unallocated]
       /\ castling_heap = [a \in Addr |-> IF a = 0 THEN game.castling
                                         ELSE CastlingState(<<"-">>)]
       /\ new_game = [game EXCEPT !.board = 0, !.castling = 0]
       /\ self = [game EXCEPT !.board = 0, !.castling = 0]
       /\ self_fen = Game_fen(game)
       /\ m = NoMove
       /\ plies = 0
       /\ raised = OK
       /\ fen_text = fen
       /\ fen_out = NotCalled
       /\ delta_call = NoDeltaCall

Init == \E fen \in InitialFens : Constructed(fen)

\* new_game.move(BasicMove(start, end, promotion)), for the end squares and
\* the promotion data validate_move accepts; the Game it returns becomes
\* new_game and its receiver becomes self
MoveWithin(limit, start) ==
    LET receiver == Deref(new_game)
    IN /\ plies < limit
       /\ piece_at_board_square(receiver.board, start) # NoPiece
       /\ valid_ends_raises(receiver, start, TRUE) = OK
       /\ \E end \in valid_ends(receiver, start, TRUE) :
          \E promotion \in PromotionInputs :
            LET move == BasicMove(start, end, promotion)
                result == Game_move(receiver, move)
                board_addr == fresh_squares(new_game.board)
                castling_addr == fresh_castling(new_game.castling)
            IN /\ validate_promotion(receiver, move) = OK
               /\ ~board_from_move_raises(receiver.board, move,
                                          receiver.en_passant)
               /\ squares_heap' = [squares_heap EXCEPT
                                       ![board_addr] = result.board]
               /\ castling_heap' = [castling_heap EXCEPT
                                       ![castling_addr] = result.castling]
               /\ new_game' = [result EXCEPT !.board = board_addr,
                                         !.castling = castling_addr]
               /\ self' = new_game
               /\ self_fen' = Game_fen(receiver)
               /\ m' = move
               /\ plies' = plies + 1
               /\ raised' = OK
               /\ UNCHANGED <<fen_text, fen_out, delta_call>>

\* the moves of the games explored to MaxPlies
Move(start) == MoveWithin(MaxPlies, start)

Next == \E start \in AllSquares : Move(start)

Spec == Init /\ [][Next]_vars

\* the same moves, from the positions at or near the end of a game
InitMate == \E fen \in MateFens : Constructed(fen)

SpecMate == InitMate /\ [][Next]_vars

\* Game(): the standard starting position, as test.py writes it
\* rnbqkbnr/pppppppp/8/8/8/8/PPPPPPPP/RNBQKBNR w KQkq - 0 1
STARTING_FEN ==
    <<"r", "n", "b", "q", "k", "b", "n", "r", "/", "p", "p", "p", "p", "p",
      "p", "p", "p", "/", "8", "/", "8", "/", "8", "/", "8", "/", "P", "P",
      "P", "P", "P", "P", "P", "P", "/", "R", "N", "B", "Q", "K", "B", "N",
      "R", " ", "w", " ", "K", "Q", "k", "q", " ", "-", " ", "0", " ",
      "1">>

\* the moves played from the starting position: the white a-pawn walks up
\* the board and takes on b7 and on a8, the black h-pawn walks down the
\* board, and a knight of each colour goes out and back
OpeningMoves ==
    {<<BoardSquare(1, 2), BoardSquare(1, 4)>>,
     <<BoardSquare(1, 4), BoardSquare(1, 5)>>,
     <<BoardSquare(1, 5), BoardSquare(1, 6)>>,
     <<BoardSquare(1, 6), BoardSquare(2, 7)>>,
     <<BoardSquare(2, 7), BoardSquare(1, 8)>>,
     <<BoardSquare(7, 1), BoardSquare(6, 3)>>,
     <<BoardSquare(6, 3), BoardSquare(7, 1)>>,
     <<BoardSquare(8, 7), BoardSquare(8, 6)>>,
     <<BoardSquare(8, 6), BoardSquare(8, 5)>>,
     <<BoardSquare(8, 5), BoardSquare(8, 4)>>,
     <<BoardSquare(8, 4), BoardSquare(8, 3)>>,
     <<BoardSquare(7, 8), BoardSquare(6, 6)>>,
     <<BoardSquare(6, 6), BoardSquare(7, 8)>>}

InitStart == Constructed(STARTING_FEN)

\* new_game.move(BasicMove(start, end, promotion)) for a move of OpeningMoves
OpeningMove(start) ==
    /\ MoveWithin(MaxStartPlies, start)
    /\ <<m'.start, m'.end>> \in OpeningMoves

NextStart == \E start \in {mv[1] : mv \in OpeningMoves} : OpeningMove(start)

SpecStart == InitStart /\ [][NextStart]_vars

\* the moves of a game from the starting position in which a king is taken:
\* the white h-pawn walks up the board and takes on g7 and on h8, the black
\* queen comes out to h4 and takes on f2 and on e1, and each side has a
\* knight move and a pawn move to pass the time
KingHuntMoves ==
    {<<BoardSquare(8, 2), BoardSquare(8, 4)>>,
     <<BoardSquare(8, 4), BoardSquare(8, 5)>>,
     <<BoardSquare(8, 5), BoardSquare(8, 6)>>,
     <<BoardSquare(8, 6), BoardSquare(7, 7)>>,
     <<BoardSquare(7, 7), BoardSquare(8, 8)>>,
     <<BoardSquare(1, 2), BoardSquare(1, 3)>>,
     <<BoardSquare(2, 1), BoardSquare(3, 3)>>,
     <<BoardSquare(5, 7), BoardSquare(5, 5)>>,
     <<BoardSquare(4, 8), BoardSquare(8, 4)>>,
     <<BoardSquare(8, 4), BoardSquare(6, 2)>>,
     <<BoardSquare(6, 2), BoardSquare(5, 1)>>,
     <<BoardSquare(7, 8), BoardSquare(6, 6)>>,
     <<BoardSquare(6, 6), BoardSquare(7, 8)>>}

\* new_game.move(BasicMove(start, end, promotion)) for a move of KingHuntMoves
KingHuntMove(start) ==
    /\ MoveWithin(MaxKingHuntPlies, start)
    /\ <<m'.start, m'.end>> \in KingHuntMoves

NextKingHunt ==
    \E start \in {mv[1] : mv \in KingHuntMoves} : KingHuntMove(start)

SpecKingHunt == InitStart /\ [][NextKingHunt]_vars

\* the same moves, from the positions for the moves of single pieces
InitPieces == \E fen \in PieceFens : Constructed(fen)

SpecPieces == InitPieces /\ [][Next]_vars

\* ------------------------------------------------------------------------
\* Calls of move() that fail
\* ------------------------------------------------------------------------
\* new_game.move(BasicMove(start, end, promotion)) when validate_move raises:
\* move() is left at line 590, before a Game is built.  The call is taken
\* after construction or after a successful call: a failed call after a
\* failed call reaches the state the second call alone reaches.
MoveRaises(start, end, promotion) ==
    LET receiver == Deref(new_game)
        move == BasicMove(start, end, promotion)
        after == receiver_after_validate(receiver, move)
        outcome == validate_move(receiver, move)
    IN /\ raised = OK
       /\ outcome # OK
       /\ raised' = outcome
       /\ squares_heap' = [squares_heap EXCEPT ![new_game.board] = after.board]
       /\ castling_heap' = [castling_heap EXCEPT
                               ![new_game.castling] = after.castling]
       /\ self' = new_game
       /\ self_fen' = Game_fen(receiver)
       /\ m' = move
       /\ UNCHANGED <<new_game, plies, fen_text, fen_out, delta_call>>

\* a successful call, within the depth the failing calls are explored to
MoveReturns(start) == plies < MaxProbePlies /\ Move(start)

InitValidate == \E fen \in ValidateFens : Constructed(fen)

NextValidate ==
    \/ \E start \in AllSquares : MoveReturns(start)
    \/ \E start \in ProbeSquares, end \in ProbeSquares :
         \E promotion \in PromotionInputs : MoveRaises(start, end, promotion)

SpecValidate == InitValidate /\ [][NextValidate]_vars

\* ------------------------------------------------------------------------
\* Game(text).fen() for six-field FEN texts
\* ------------------------------------------------------------------------
\* rows of 8 files: pieces and digits 1-8; "44" and "31P3" split a run of
\* empty squares over two digits
FenRows ==
    {<<"8">>, <<"4", "4">>, <<"4", "k", "3">>, <<"R", "3", "K", "2", "R">>,
     <<"3", "1", "P", "3">>, <<"p", "P", "p", "P", "p", "P", "p", "P">>}

\* placements: rank 8 and rank 1 drawn from FenRows, the other ranks empty
FenPlacements ==
    {Join(<<top, <<"8">>, <<"8">>, <<"8">>, <<"8">>, <<"8">>, <<"8">>,
            bottom>>, "/") : top \in FenRows, bottom \in FenRows}

\* the subsets of KQkq, in that order, "-" for the empty one
FenCastlings ==
    {LET letters == SelectSeq(<<"K", "Q", "k", "q">>, LAMBDA c : c \in flags)
     IN IF letters = <<>> THEN <<"-">> ELSE letters :
        flags \in SUBSET {"K", "Q", "k", "q"}}

FenEnPassants == {<<"-">>, <<"e", "3">>, <<"c", "6">>}

\* clocks: 0, 10, and 0 written "00"
FenHalfmoves == {<<"0">>, <<"1", "0">>, <<"0", "0">>}

\* full-move numbers: 1, 20, and 1 written "01"
FenFullmoves == {<<"1">>, <<"2", "0">>, <<"0", "1">>}

FenTexts ==
    {Join(<<placement, <<active>>, castling, en_passant, halfmove,
            fullmove>>, " ") :
        placement \in FenPlacements, active \in {"w", "b"},
        castling \in FenCastlings, en_passant \in FenEnPassants,
        halfmove \in FenHalfmoves, fullmove \in FenFullmoves}

InitFen == \E fen \in FenTexts : Constructed(fen)

\* new_game.fen(), once
Fen ==
    /\ fen_out = NotCalled
    /\ fen_out' = Game_fen(Deref(new_game))
    /\ UNCHANGED <<squares_heap, castling_heap, self, self_fen, m, new_game,
                   plies, raised, fen_text, delta_call>>

NextFen == Fen

SpecFen == InitFen /\ [][NextFen]_vars

\* ------------------------------------------------------------------------
\* _Board(fen=text) for placement texts, well formed or not
\* ------------------------------------------------------------------------
\* placements of 7, 8 or 9 rows: the first row is any text of one to three
\* characters over the digits 0, 1, 7, 8, 9 and the letters K and p, the
\* other rows are "8"
DecodePlacements ==
    LET chars == {"0", "1", "7", "8", "9", "K", "p"}
        rows  == UNION {[1..n -> chars] : n \in 1..3}
    IN {Join([r \in 1..count |-> IF r = 1 THEN row ELSE <<"8">>], "/") :
           row \in rows, count \in {7, 8, 9}}

\* before the call: a Game() stands at address 0 and fen_text is the text
\* the call is about to decode
InitDecode ==
    \E placement \in DecodePlacements :
        LET game == Game_init(STARTING_FEN)
        IN /\ squares_heap = [a \in Addr |-> IF a = 0 THEN game.board
                                            ELSE Unallocated]
           /\ castling_heap = [a \in Addr |-> IF a = 0 THEN game.castling
                                             ELSE CastlingState(<<"-">>)]
           /\ new_game = [game EXCEPT !.board = 0, !.castling = 0]
           /\ self = [game EXCEPT !.board = 0, !.castling = 0]
           /\ self_fen = Game_fen(game)
           /\ m = NoMove
           /\ plies = 0
           /\ raised = OK
           /\ fen_text = placement
           /\ fen_out = NotCalled
           /\ delta_call = NoDeltaCall

\* _Board(fen=fen_text) returns: the squares are stored at address 1 and
\* fen_out is str() of the new _Board
DecodeReturns ==
    /\ raised = OK
    /\ fen_out = NotCalled
    /\ ~Board_from_fen_raises(fen_text)
    /\ squares_heap' = [squares_heap EXCEPT ![1] = Board_from_fen(fen_text)]
    /\ fen_out' = Board_fen(Board_from_fen(fen_text))
    /\ UNCHANGED <<castling_heap, self, self_fen, m, new_game, plies, raised,
                   fen_text, delta_call>>

\* _Board(fen=fen_text) fails one of its two assertions: no _Board is built
DecodeRaises ==
    /\ raised = OK
    /\ fen_out = NotCalled
    /\ Board_from_fen_raises(fen_text)
    /\ raised' = "AssertionError"
    /\ UNCHANGED <<squares_heap, castling_heap, self, self_fen, m, new_game,
                   plies, fen_text, fen_out, delta_call>>

SpecDecode == InitDecode /\ [][DecodeReturns \/ DecodeRaises]_vars

\* ------------------------------------------------------------------------
\* square.delta(file_delta, rank_delta) for deltas of any size
\* ------------------------------------------------------------------------
\* before the call: a Game() stands at address 0 and delta_call holds the
\* receiver and the arguments of the call, with no result yet
InitDelta ==
    \E square \in {BoardSquare(1, 1), BoardSquare(3, 3), BoardSquare(5, 4),
                    BoardSquare(8, 8)} :
    \E file_delta \in {-105, -98, -97, -10, -2, -1, 0, 1, 2, 10, 151, 152,
                        158, 159} :
    \E rank_delta \in {-10, -1, 0, 1, 2, 10} :
        LET game == Game_init(STARTING_FEN)
        IN /\ squares_heap = [a \in Addr |-> IF a = 0 THEN game.board
                                            ELSE Unallocated]
           /\ castling_heap = [a \in Addr |-> IF a = 0 THEN game.castling
                                             ELSE CastlingState(<<"-">>)]
           /\ new_game = [game EXCEPT !.board = 0, !.castling = 0]
           /\ self = [game EXCEPT !.board = 0, !.castling = 0]
           /\ self_fen = Game_fen(game)
           /\ m = NoMove
           /\ plies = 0
           /\ raised = OK
           /\ fen_text = STARTING_FEN
           /\ fen_out = NotCalled
           /\ delta_call = [square |-> square, file_delta |-> file_delta,
                            rank_delta |-> rank_delta, called |-> FALSE,
                            result |-> NoSquare]

\* the call returns a BoardSquare, or None (NoSquare) when BoardSquare()
\* raised InvalidSquareException
DeltaReturns ==
    /\ ~delta_call.called
    /\ ~delta_raises(delta_call.square, delta_call.file_delta,
                     delta_call.rank_delta)
    /\ delta_call' = [delta_call EXCEPT
                         !.called = TRUE,
                         !.result = delta(delta_call.square,
                                          delta_call.file_delta,
                                          delta_call.rank_delta)]
    /\ UNCHANGED <<squares_heap, castling_heap, self, self_fen, m, new_game,
                   plies, raised, fen_text, fen_out>>

\* the call raises the ValueError of chr()
DeltaRaises ==
    /\ ~delta_call.called
    /\ delta_raises(delta_call.square, delta_call.file_delta,
                    delta_call.rank_delta)
    /\ delta_call' = [delta_call EXCEPT !.called = TRUE]
    /\ raised' = "ValueError"
    /\ UNCHANGED <<squares_heap, castling_heap, self, self_fen, m, new_game,
                   plies, fen_text, fen_out>>

SpecDelta == InitDelta /\ [][DeltaReturns \/ DeltaRaises]_vars

\* ------------------------------------------------------------------------
\* Shorthands for the properties
\* ------------------------------------------------------------------------
\* the receiver and the result of the last call, as values
Self == Deref(self)
NewGame == Deref(new_game)
Moved == plies > 0
moved_piece == piece_at_board_square(Self.board, m.start)

TypeOK ==
    /\ plies \in 0..MaxPlies
    /\ new_game.active \in {"w", "b"}
    /\ Len(NewGame.board) = 8

\* the squares holding a piece of the colour to move in game g
own_squares(g) ==
    {s \in AllSquares :
        /\ piece_at_board_square(g.board, s) # NoPiece
        /\ _colour_of_piece(piece_at_board_square(g.board, s)) = g.active}

\* the squares holding the king of the colour to move in game g
own_king_squares(g) ==
    {s \in own_squares(g) : piece_at_board_square(g.board, s) \in {"k", "K"}}

\* the squares the opponent of the colour to move threatens in game g
OpposingThreats(g) == _threat_squares(g.board, other_color(g.active))

\* the castling destinations of a colour, the flag and the squares between
\* king and rook that go with each, and the rook's home corner
CastlingSides ==
    {[color |-> "w", end |-> g1, flag |-> "white_kingside",
      between |-> {f1, g1}, corner |-> h1, rook_end |-> f1, rook |-> "R"],
     [color |-> "w", end |-> c1, flag |-> "white_queenside",
      between |-> {b1, c1, d1}, corner |-> a1, rook_end |-> d1, rook |-> "R"],
     [color |-> "b", end |-> g8, flag |-> "black_kingside",
      between |-> {f8, g8}, corner |-> h8, rook_end |-> f8, rook |-> "r"],
     [color |-> "b", end |-> c8, flag |-> "black_queenside",
      between |-> {b8, c8, d8}, corner |-> a8, rook_end |-> d8, rook |-> "r"]}

\* side.end is offered to the king on square s of game g as a two-file move
CastlingOffered(g, s, side) ==
    /\ side.color = g.active
    /\ Abs(side.end.file_ - s.file_) = 2
    /\ side.end \in valid_ends(g, s, TRUE)

CastlingFlags ==
    {"white_kingside", "white_queenside", "black_kingside", "black_queenside"}

\* ------------------------------------------------------------------------
\* C1: no square of valid_ends(s) gives a board on which the colour to move
\* is in check, and after every successful move() the colour that just moved
\* is not in check on the board of the returned Game.
\* ------------------------------------------------------------------------
C1_MoverNotInCheck ==
    /\ \A s \in own_squares(NewGame) :
         \A end \in valid_ends(NewGame, s, TRUE) :
            NewGame.active \notin check_status(
                board_from_move(NewGame.board,
                                BasicMove(s, end, NoPromotion),
                                NewGame.en_passant))
    /\ Moved => Self.active \notin check_status(NewGame.board)

\* ------------------------------------------------------------------------
\* C2: move() never mutates its receiver: after g2 = g1.move(m), g1.fen() is
\* what it was before the call, and g1 and g2 share neither squares nor
\* castling state.
\* ------------------------------------------------------------------------
C2_ReceiverUnchanged ==
    Moved => /\ Game_fen(Self) = self_fen
             /\ self.board # new_game.board
             /\ self.castling # new_game.castling

\* a second move has been applied to the Game a first move returned, and it
\* changed the position
C2_Witness ==
    /\ plies = 2
    /\ Game_fen(Self) = self_fen
    /\ NewGame.board # Self.board

\* ------------------------------------------------------------------------
\* C3: after a successful move the half-move clock is 0 if the moved piece
\* was a pawn or the move captured (the end square held a piece, or a pawn
\* moved onto the en-passant target), and the previous clock plus 1 otherwise.
\* ------------------------------------------------------------------------
IsCapture ==
    \/ piece_at_board_square(Self.board, m.end) # NoPiece
    \/ (moved_piece \in {"p", "P"} /\ m.end = Self.en_passant)

C3_HalfmoveClock ==
    Moved => NewGame.halfmove =
                 IF moved_piece \in {"p", "P"} \/ IsCapture THEN 0
                 ELSE Self.halfmove + 1

\* ------------------------------------------------------------------------
\* C4: after a successful move the active colour is the opposite of the
\* receiver's, and the full-move number is the receiver's plus 1 when black
\* moved and the receiver's when white moved.
\* ------------------------------------------------------------------------
C4_TurnAndFullmove ==
    Moved => /\ NewGame.active # Self.active
             /\ NewGame.active \in {"w", "b"}
             /\ Self.active = "b" => NewGame.fullmove = Self.fullmove + 1
             /\ Self.active = "w" => NewGame.fullmove = Self.fullmove

\* white has moved and then black has moved
C4_Witness ==
    /\ plies = 2
    /\ Self.active = "b"
    /\ NewGame.active = "w"
    /\ NewGame.fullmove = 2

\* ------------------------------------------------------------------------
\* C5: castling rights are monotone: a flag that is false in a Game is false
\* in the Game every successful move() derives from it.
\* ------------------------------------------------------------------------
C5_CastlingMonotone ==
    [][\A flag \in CastlingFlags :
          ~NewGame.castling[flag] => ~NewGame'.castling[flag]]_vars

\* a flag cleared by the first move is still clear after the second, while
\* another flag is still set
C5_Witness ==
    /\ plies = 2
    /\ \E flag \in CastlingFlags :
          ~Self.castling[flag] /\ ~NewGame.castling[flag]
    /\ \E flag \in CastlingFlags : NewGame.castling[flag]

\* ------------------------------------------------------------------------
\* C6: after a move of a rook from file a the mover's queenside flag is
\* false, after a move of a rook from file h the mover's kingside flag is
\* false, after a king move both of the mover's flags are false, and the
\* opponent's two flags are unchanged.
\* ------------------------------------------------------------------------
Kingside(color) == IF color = "w" THEN "white_kingside" ELSE "black_kingside"
Queenside(color) == IF color = "w" THEN "white_queenside" ELSE "black_queenside"

C6_CastlingFlagUpdate ==
    Moved =>
      LET mover == Self.active
          opponent == other_color(mover)
      IN /\ (moved_piece \in {"r", "R"} /\ m.start.file_ = 1)
              => ~NewGame.castling[Queenside(mover)]
         /\ (moved_piece \in {"r", "R"} /\ m.start.file_ = 8)
              => ~NewGame.castling[Kingside(mover)]
         /\ moved_piece \in {"k", "K"}
              => /\ ~NewGame.castling[Queenside(mover)]
                 /\ ~NewGame.castling[Kingside(mover)]
         /\ NewGame.castling[Kingside(opponent)]
              = Self.castling[Kingside(opponent)]
         /\ NewGame.castling[Queenside(opponent)]
              = Self.castling[Queenside(opponent)]

\* a rook left file a while its side still had the queenside right and the
\* opponent still had a right to keep
C6_Witness ==
    /\ Moved
    /\ moved_piece \in {"r", "R"}
    /\ m.start.file_ = 1
    /\ Self.castling[Queenside(Self.active)]
    /\ Self.castling[Kingside(Self.active)]
    /\ NewGame.castling[Kingside(Self.active)]
    /\ NewGame.castling[Kingside(other_color(Self.active))]

\* ------------------------------------------------------------------------
\* C7: a king move of exactly two files leaves the king on its destination
\* and the matching rook relocated (a1 to d1 for e1-c1, h1 to f1 for e1-g1,
\* a8 to d8 for e8-c8, h8 to f8 for e8-g8), the rook's home square empty, and
\* no other square changed.
\* ------------------------------------------------------------------------
C7_CastlingBoard ==
    (Moved /\ moved_piece \in {"k", "K"}
           /\ Abs(m.end.file_ - m.start.file_) = 2) =>
      \A side \in CastlingSides :
         side.end = m.end =>
            NewGame.board =
               SetSquare(
                 SetSquare(
                   SetSquare(
                     SetSquare(Self.board, m.end, moved_piece),
                     m.start, NoPiece),
                   side.corner, NoPiece),
                 side.rook_end,
                 piece_at_board_square(Self.board, side.corner))

\* ------------------------------------------------------------------------
\* C8: castling out of check is never offered: valid_ends of a king holds a
\* castling destination reached by a two-file move only if the king's own
\* square is not threatened by the opponent.
\* ------------------------------------------------------------------------
C8_NoCastlingOutOfCheck ==
    \A s \in own_king_squares(NewGame) :
       \A side \in CastlingSides :
          CastlingOffered(NewGame, s, side) => s \notin OpposingThreats(NewGame)

\* ------------------------------------------------------------------------
\* C9: valid_ends offers a castling destination only when that side's flag
\* is set and every square between king and rook (f, g for kingside; b, c, d
\* for queenside) is unoccupied and not threatened by the opponent.
\* ------------------------------------------------------------------------
C9_CastlingNeedsFreeSafeSquares ==
    \A s \in own_king_squares(NewGame) :
       \A side \in CastlingSides :
          CastlingOffered(NewGame, s, side) =>
             /\ NewGame.castling[side.flag]
             /\ \A sq \in side.between :
                   /\ piece_at_board_square(NewGame.board, sq) = NoPiece
                   /\ sq \notin OpposingThreats(NewGame)

\* after a move, the black king on e8 holds both rights and both wings are
\* empty; queenside castling is offered and kingside castling is withheld
\* because a square the king crosses is threatened
C9_Witness ==
    /\ Moved
    /\ NewGame.active = "b"
    /\ piece_at_board_square(NewGame.board, e8) = "k"
    /\ NewGame.castling.black_kingside
    /\ NewGame.castling.black_queenside
    /\ piece_at_board_square(NewGame.board, f8) = NoPiece
    /\ piece_at_board_square(NewGame.board, g8) = NoPiece
    /\ e8 \notin OpposingThreats(NewGame)
    /\ f8 \in OpposingThreats(NewGame)
    /\ c8 \in valid_ends(NewGame, e8, TRUE)
    /\ g8 \notin valid_ends(NewGame, e8, TRUE)

\* ------------------------------------------------------------------------
\* C10: castling is unavailable once the rook is gone from its home square:
\* when no rook of the king's colour stands on the home corner of a side,
\* valid_ends of the king does not hold that side's castling destination,
\* whatever the stored flag says.
\* ------------------------------------------------------------------------
C10_NoCastlingWithoutRook ==
    \A s \in own_king_squares(NewGame) :
       \A side \in CastlingSides :
          CastlingOffered(NewGame, s, side) =>
             piece_at_board_square(NewGame.board, side.corner) = side.rook

\* ------------------------------------------------------------------------
\* C11: when a pawn moves onto the current en-passant target, the board of
\* the returned Game has the capturing pawn on the target square, the enemy
\* pawn that made the preceding two-rank advance (same file as the target;
\* rank 4 for a rank-3 target, rank 5 for a rank-6 target) is removed, and
\* the en-passant target of the returned Game is empty.
\* ------------------------------------------------------------------------
C11_EnPassantCapture ==
    (Moved /\ moved_piece \in {"p", "P"} /\ m.end = Self.en_passant) =>
        LET advanced == BoardSquare(m.end.file_,
                                    IF m.end.rank_ = 3 THEN 4 ELSE 5)
            enemy_pawn == IF moved_piece = "P" THEN "p" ELSE "P"
        IN /\ m.end.rank_ \in {3, 6}
           /\ piece_at_board_square(Self.board, advanced) = enemy_pawn
           /\ piece_at_board_square(NewGame.board, m.end) = moved_piece
           /\ piece_at_board_square(NewGame.board, m.start) = NoPiece
           /\ piece_at_board_square(NewGame.board, advanced) = NoPiece
           /\ NewGame.en_passant = NoSquare

\* a pawn has captured en passant: it moved diagonally onto the empty target
\* square and the pawn beside its start square is gone
C11_Witness ==
    /\ Moved
    /\ moved_piece \in {"p", "P"}
    /\ m.end = Self.en_passant
    /\ m.end.file_ # m.start.file_
    /\ piece_at_board_square(Self.board, m.end) = NoPiece
    /\ piece_at_board_square(Self.board,
                             BoardSquare(m.end.file_, m.start.rank_))
          \in {"p", "P"}
    /\ piece_at_board_square(NewGame.board,
                             BoardSquare(m.end.file_, m.start.rank_)) = NoPiece

\* ------------------------------------------------------------------------
\* C12: after every successful move the en-passant target of the returned
\* Game is the square passed over (start file, the rank between start and
\* end) if and only if the moved piece was a pawn that advanced exactly two
\* ranks; after any other move it is empty, so a target lives one ply.
\* ------------------------------------------------------------------------
C12_EnPassantTarget ==
    Moved =>
        NewGame.en_passant =
            IF /\ moved_piece \in {"p", "P"}
               /\ Abs(m.end.rank_ - m.start.rank_) = 2
            THEN BoardSquare(m.start.file_,
                             (m.start.rank_ + m.end.rank_) \div 2)
            ELSE NoSquare

\* a target set by a two-rank pawn advance has been cleared by the next move
C12_Witness ==
    /\ plies = 2
    /\ Self.en_passant # NoSquare
    /\ piece_at_board_square(Self.board, delta(Self.en_passant, 0,
            IF Self.en_passant.rank_ = 3 THEN 1 ELSE -1)) \in {"p", "P"}
    /\ NewGame.en_passant = NoSquare

\* ------------------------------------------------------------------------
\* C16: for an accepted promotion move the board of the returned Game holds
\* the promotion piece (not the pawn) on the end square and nothing on the
\* start square, and the FEN text of the returned Game shows the same.
\* ------------------------------------------------------------------------
C16_PromotionBoard ==
    (Moved /\ m.promotion # NoPromotion) =>
        LET shown == Board_from_fen(Split(Game_fen(NewGame), " ")[1])
        IN /\ moved_piece \in {"p", "P"}
           /\ piece_at_board_square(NewGame.board, m.end) = m.promotion
           /\ piece_at_board_square(NewGame.board, m.start) = NoPiece
           /\ piece_at_board_square(shown, m.end) = m.promotion
           /\ piece_at_board_square(shown, m.start) = NoPiece

\* a white pawn has been promoted to a queen on rank 8
C16_Witness ==
    /\ Moved
    /\ moved_piece = "P"
    /\ m.promotion = "Q"
    /\ m.end.rank_ = 8
    /\ piece_at_board_square(NewGame.board, m.end) = "Q"

\* ------------------------------------------------------------------------
\* Shorthands for the properties of calls that may fail
\* ------------------------------------------------------------------------
\* move() has been called; Self is its receiver and m its argument
Called == m # NoMove
\* the piece on the start square of the last call (NoPiece if none)
start_piece == piece_at_board_square(Self.board, m.start)
\* the start square of the last call held a piece of the colour to move
OwnStart ==
    start_piece # NoPiece /\ _colour_of_piece(start_piece) = Self.active
\* the last call asked for a move valid_ends offers
LegalEnd == OwnStart /\ m.end \in valid_ends(Self, m.start, TRUE)
\* the last call asked to take a pawn to the opponent's back rank
PawnToBackRank ==
    \/ start_piece = "P" /\ m.end.rank_ = 8
    \/ start_piece = "p" /\ m.end.rank_ = 1

\* ------------------------------------------------------------------------
\* C13: move(m) fails with InvalidMove whenever m.start holds a piece of the
\* active colour and m.end is not in valid_ends(m.start); every move that
\* move() accepts has its end square in valid_ends(start) of the receiver.
\* ------------------------------------------------------------------------
C13_InvalidMove ==
    Called =>
        /\ (OwnStart /\ m.end \notin valid_ends(Self, m.start, TRUE))
              => raised = "InvalidMoveException"
        /\ raised = OK => LegalEnd

\* a piece that has somewhere to go was asked to go elsewhere, with and
\* without promotion data the answer is InvalidMove
C13_Witness ==
    /\ Called
    /\ raised = "InvalidMoveException"
    /\ OwnStart
    /\ valid_ends(Self, m.start, TRUE) # {}
    /\ m.end \notin valid_ends(Self, m.start, TRUE)
    /\ m.promotion # NoPromotion

\* ------------------------------------------------------------------------
\* C14: move() fails with MoveMissingPromotion for every otherwise legal
\* move that takes a white pawn to rank 8 or a black pawn to rank 1 and
\* carries no promotion piece; no pawn move to the back rank is accepted
\* without promotion data.
\* ------------------------------------------------------------------------
C14_MissingPromotion ==
    Called =>
        /\ (LegalEnd /\ PawnToBackRank /\ m.promotion = NoPromotion)
              => raised = "MoveMissingPromotionException"
        /\ (raised = OK /\ PawnToBackRank) => m.promotion # NoPromotion

\* a black pawn was asked to step onto rank 1 without promotion data
C14_Witness ==
    /\ Called
    /\ raised = "MoveMissingPromotionException"
    /\ start_piece = "p"
    /\ m.end.rank_ = 1
    /\ LegalEnd

\* ------------------------------------------------------------------------
\* C15: for an otherwise legal move that carries promotion data, move()
\* fails with InvalidPromotionData when the move does not take a pawn to
\* the opponent's back rank, or the piece named is not of the mover's
\* colour, or it is a pawn or a king; a promotion is accepted only for a
\* queen, rook, bishop or knight of the mover's colour.
\* ------------------------------------------------------------------------
C15_InvalidPromotionData ==
    (Called /\ LegalEnd /\ m.promotion # NoPromotion) =>
        /\ (\/ ~PawnToBackRank
            \/ _colour_of_piece(m.promotion) # Self.active
            \/ m.promotion \in {"P", "p", "K", "k"})
              => raised = "InvalidPromotionDataException"
        /\ raised = OK =>
              m.promotion \in (IF Self.active = "w"
                               THEN {"Q", "R", "B", "N"}
                               ELSE {"q", "r", "b", "n"})

\* ------------------------------------------------------------------------
\* C17: for every Game and every square s, valid_ends(s) fails with
\* NoPieceAtSquare exactly when s is empty, fails with NotYourTurn exactly
\* when s holds a piece whose colour is not the active colour, and returns
\* a set otherwise; move() from such a square fails with the same error.
\* ------------------------------------------------------------------------
C17_StartSquareErrors ==
    /\ \A s \in AllSquares :
         LET piece == piece_at_board_square(NewGame.board, s)
         IN valid_ends_raises(NewGame, s, TRUE) =
              IF piece = NoPiece THEN "NoPieceAtSquareException"
              ELSE IF _colour_of_piece(piece) # NewGame.active
              THEN "NotYourTurnException"
              ELSE OK
    /\ Called =>
         /\ raised = "NoPieceAtSquareException" <=> start_piece = NoPiece
         /\ raised = "NotYourTurnException" <=>
               (start_piece # NoPiece /\ ~OwnStart)

\* move() was asked to move a piece of the colour that is not to move
C17_Witness ==
    /\ Called
    /\ raised = "NotYourTurnException"
    /\ start_piece # NoPiece
    /\ _colour_of_piece(start_piece) # Self.active
    /\ valid_ends_raises(Self, m.start, TRUE) = "NotYourTurnException"

\* ------------------------------------------------------------------------
\* C18: a move() call that fails with a validation error leaves the
\* receiver unchanged (board, active colour, castling rights, en-passant
\* target, both counters) and produces no new Game: the Game the caller
\* holds is still the receiver, as it was before the call.
\* ------------------------------------------------------------------------
C18_FailedMoveChangesNothing ==
    raised # OK =>
        /\ raised \in {"NoPieceAtSquareException", "NotYourTurnException",
                       "InvalidMoveException", "MoveMissingPromotionException",
                       "InvalidPromotionDataException"}
        /\ new_game = self
        /\ Game_fen(Self) = self_fen
        /\ Game_init(self_fen) = Self

\* a call on a Game that an earlier move returned has failed, and that Game
\* still has a legal move
C18_Witness ==
    /\ raised # OK
    /\ plies > 0
    /\ Game_fen(Self) = self_fen
    /\ \E s \in own_squares(NewGame) : valid_ends(NewGame, s, TRUE) # {}

\* ------------------------------------------------------------------------
\* C19: is_checkmate() is true exactly when the active colour is in check
\* and valid_ends is empty for every piece of the active colour;
\* is_stalemate() is true exactly when the active colour is not in check
\* and valid_ends is empty for every piece of the active colour.
\* ------------------------------------------------------------------------
C19_CheckmateStalemate ==
    LET in_check == NewGame.active \in check_status(NewGame.board)
        no_ends == \A s \in own_squares(NewGame) :
                      valid_ends(NewGame, s, TRUE) = {}
    IN /\ is_checkmate(NewGame) <=> (in_check /\ no_ends)
       /\ is_stalemate(NewGame) <=> (~in_check /\ no_ends)

\* a move has given checkmate
C19_Witness ==
    /\ Moved
    /\ is_checkmate(NewGame)
    /\ ~is_stalemate(NewGame)
    /\ NewGame.active \in check_status(NewGame.board)

\* ------------------------------------------------------------------------
\* C20: FEN round trip.  As claimed: for every syntactically valid six-field
\* FEN text t (placement of 8 ranks using piece letters and digits 1-8,
\* active colour, castling subset of KQkq or '-', en-passant square or '-',
\* half-move clock, full-move number), Game(t).fen() == t.
\* ------------------------------------------------------------------------
C20_RoundTrip == fen_out # NotCalled => fen_out = fen_text

\* no two digits stand side by side in the text
OneDigitPerRun(text) ==
    \A i \in 1..(Len(text) - 1) :
        ~(IndexOf(Digits, text[i]) # 0 /\ IndexOf(Digits, text[i + 1]) # 0)

\* a decimal numeral without leading zeros
NoLeadingZero(text) == Len(text) = 1 \/ text[1] # "0"

\* the text writes every run of empty squares as one digit and both
\* counters without leading zeros
CanonicalFen(text) ==
    LET fields == Split(text, " ")
    IN /\ OneDigitPerRun(fields[1])
       /\ NoLeadingZero(fields[5])
       /\ NoLeadingZero(fields[6])

\* C20 as it holds: for every such text t that writes each run of empty
\* squares as a single digit and both counters without leading zeros,
\* Game(t).fen() == t.
C20_RoundTripCanonical ==
    (fen_out # NotCalled /\ CanonicalFen(fen_text)) => fen_out = fen_text

\* fen() has reproduced a text with pieces, all four castling letters, an
\* en-passant square and a two-digit clock
C20_Witness ==
    /\ fen_out # NotCalled
    /\ CanonicalFen(fen_text)
    /\ fen_out = fen_text
    /\ LET fields == Split(fen_text, " ")
       IN /\ fields[1] # Join([r \in 1..8 |-> <<"8">>], "/")
          /\ fields[3] = <<"K", "Q", "k", "q">>
          /\ fields[4] # <<"-">>
          /\ Len(fields[5]) = 2

\* ------------------------------------------------------------------------
\* C22: for every Game and every pawn of the active colour, a forward-
\* diagonal square is in valid_ends(pawn) only if it holds an enemy piece or
\* is the current en-passant target; for a piece that is not a pawn the
\* en-passant target gives no extra destination: valid_ends offers it
\* nothing that it would not offer without the target.
\* ------------------------------------------------------------------------
C22_PawnDiagonals ==
    LET without == [NewGame EXCEPT !.en_passant = NoSquare]
    IN \A s \in own_squares(NewGame) :
         LET piece == piece_at_board_square(NewGame.board, s)
         IN IF piece \in {"p", "P"}
            THEN \A end \in valid_ends(NewGame, s, TRUE) :
                   end.file_ # s.file_ =>
                     \/ end = NewGame.en_passant
                     \/ /\ piece_at_board_square(NewGame.board, end) # NoPiece
                        /\ _colour_of_piece(piece_at_board_square(
                               NewGame.board, end)) # NewGame.active
            ELSE valid_ends(NewGame, s, TRUE)
                   \subseteq valid_ends(without, s, TRUE)

\* ------------------------------------------------------------------------
\* C24: the en-passant removal applies only to pawn captures: when a piece
\* that is not a pawn moves onto the current en-passant target, the returned
\* board differs from the receiver's only on the start and end squares of
\* the move, and the pawn that made the two-rank advance stays on the board.
\* ------------------------------------------------------------------------
C24_RemovalOnlyForPawns ==
    (/\ Moved
     /\ moved_piece \notin {"p", "P"}
     /\ Self.en_passant # NoSquare
     /\ m.end = Self.en_passant) =>
        \A s \in AllSquares \ {m.start, m.end} :
            piece_at_board_square(NewGame.board, s)
                = piece_at_board_square(Self.board, s)

\* ------------------------------------------------------------------------
\* C25: move() clears a castling flag only when the mover's king moves or
\* when a rook of the mover's colour leaves that side's home corner (a1/h1
\* for white, a8/h8 for black): a rook move that starts on file a or h but
\* not on the home corner leaves all four castling flags unchanged.
\* ------------------------------------------------------------------------
C25_RookFlagOnlyFromCorner ==
    (Moved /\ NewGame.castling # Self.castling) =>
        \/ moved_piece \in {"k", "K"}
        \/ moved_piece = "R" /\ m.start \in {BoardSquare(1, 1), BoardSquare(8, 1)}
        \/ moved_piece = "r" /\ m.start \in {BoardSquare(1, 8), BoardSquare(8, 8)}

\* ------------------------------------------------------------------------
\* C26: when board_from_move applies a move whose end square equals the
\* supplied en-passant target, the square it clears is the one directly
\* south of the target (same file, rank minus 1) when the target is on
\* rank 3, and the one directly north of the target (same file, rank plus 1)
\* when the target is on rank 6: that square is empty on the returned board
\* and every square other than it and the start and end of the move is as
\* it was.
\* ------------------------------------------------------------------------
C26_ClearedSquare ==
    (Moved /\ Self.en_passant # NoSquare /\ m.end = Self.en_passant) =>
        LET cleared == BoardSquare(m.end.file_,
                                   IF m.end.rank_ = 3 THEN m.end.rank_ - 1
                                   ELSE m.end.rank_ + 1)
        IN /\ m.end.rank_ \in {3, 6}
           /\ piece_at_board_square(NewGame.board, cleared) = NoPiece
           /\ \A s \in AllSquares \ {m.start, m.end, cleared} :
                 piece_at_board_square(NewGame.board, s)
                     = piece_at_board_square(Self.board, s)

\* C26, as the code has it: the cleared square is the one directly north of
\* the target (rank plus 1, rank 4) when the target is on rank 3, and the
\* one directly south of the target (rank minus 1, rank 5) when the target
\* is on rank 6.
C26_ClearedSquareBehindTarget ==
    (Moved /\ Self.en_passant # NoSquare /\ m.end = Self.en_passant) =>
        LET cleared == BoardSquare(m.end.file_,
                                   IF m.end.rank_ = 3 THEN m.end.rank_ + 1
                                   ELSE m.end.rank_ - 1)
        IN /\ m.end.rank_ \in {3, 6}
           /\ piece_at_board_square(NewGame.board, cleared) = NoPiece
           /\ \A s \in AllSquares \ {m.start, m.end, cleared} :
                 piece_at_board_square(NewGame.board, s)
                     = piece_at_board_square(Self.board, s)

\* a move has ended on a rank-6 target and the black pawn south of the
\* target, on rank 5, has left the board
C26_Witness ==
    /\ Moved
    /\ m.end = Self.en_passant
    /\ m.end.rank_ = 6
    /\ piece_at_board_square(Self.board, BoardSquare(m.end.file_, 5)) = "p"
    /\ piece_at_board_square(NewGame.board, BoardSquare(m.end.file_, 5))
          = NoPiece

\* ------------------------------------------------------------------------
\* C27: Pawn.move_squares returns only squares straight ahead (rank +1 for
\* white, rank -1 for black): the next square if it is empty, plus the
\* square two ahead if the pawn is on its home rank (2 for white, 7 for
\* black) and both squares ahead are empty; an occupied square directly
\* ahead, by either colour, yields the empty set, and no occupied square is
\* ever returned.
\* ------------------------------------------------------------------------
C27_PawnMoveSquares ==
    \A s \in AllSquares :
        LET piece == piece_at_board_square(NewGame.board, s)
            ahead == IF piece = "P" THEN 1 ELSE -1
            home  == IF piece = "P" THEN 2 ELSE 7
            one   == [file_ |-> s.file_, rank_ |-> s.rank_ + ahead]
            two   == [file_ |-> s.file_, rank_ |-> s.rank_ + 2 * ahead]
            Empty(t) == /\ t \in AllSquares
                        /\ piece_at_board_square(NewGame.board, t) = NoPiece
        IN piece \in {"p", "P"} =>
             Pawn_move_squares(piece, NewGame.board, s)
               = (IF Empty(one) THEN {one} ELSE {})
                 \cup (IF s.rank_ = home /\ Empty(one) /\ Empty(two)
                       THEN {two} ELSE {})

\* after a move, a pawn on its home rank has the next square free and the
\* square two ahead occupied, and another pawn has a piece directly ahead
C27_Witness ==
    /\ Moved
    /\ \E s \in AllSquares :
         /\ piece_at_board_square(NewGame.board, s) = "P"
         /\ s.rank_ = 2
         /\ piece_at_board_square(NewGame.board, delta(s, 0, 1)) = NoPiece
         /\ piece_at_board_square(NewGame.board, delta(s, 0, 2)) # NoPiece
         /\ Pawn_move_squares("P", NewGame.board, s) = {delta(s, 0, 1)}
    /\ \E s \in AllSquares :
         /\ piece_at_board_square(NewGame.board, s) = "P"
         /\ delta(s, 0, 1) # NoSquare
         /\ piece_at_board_square(NewGame.board, delta(s, 0, 1)) # NoPiece
         /\ Pawn_move_squares("P", NewGame.board, s) = {}

\* ------------------------------------------------------------------------
\* C28: Pawn.threat_squares returns exactly the on-board forward-diagonal
\* squares of the pawn (file +/-1, rank +1 for white, rank -1 for black)
\* whatever stands on them: empty, enemy-occupied or friendly-occupied.
\* ------------------------------------------------------------------------
C28_PawnThreatSquares ==
    \A s \in AllSquares :
        LET piece == piece_at_board_square(NewGame.board, s)
            ahead == IF piece = "P" THEN 1 ELSE -1
        IN piece \in {"p", "P"} =>
             Pawn_threat_squares(piece, NewGame.board, s)
               = {t \in AllSquares : /\ t.rank_ = s.rank_ + ahead
                                     /\ t.file_ \in {s.file_ - 1, s.file_ + 1}}

C30_CheckStatus ==
    \A c \in {"w", "b"} :
        c \in check_status(NewGame.board) <=>
            \E s \in AllSquares :
                /\ piece_at_board_square(NewGame.board, s)
                      = (IF c = "w" THEN "K" ELSE "k")
                /\ s \in UNION {threat_squares(
                                   piece_at_board_square(NewGame.board, t),
                                   NewGame.board, t) :
                                t \in {u \in AllSquares :
                                         _colour_of_piece(piece_at_board_square(
                                             NewGame.board, u))
                                           = other_color(c)}}

\* ------------------------------------------------------------------------
\* C21: in the standard starting position with white to move, valid_ends of
\* every white piece is the standard set: each pawn on file f of rank 2
\* yields exactly {f3, f4}; the knight on b1 yields {a3, c3} and the knight
\* on g1 yields {f3, h3}; every rook, bishop, queen and king yields the
\* empty set.
\* ------------------------------------------------------------------------
C21_StartingPosition ==
    (NewGame.board = Board_default /\ NewGame.active = "w") =>
        \A s \in AllSquares :
            LET piece == piece_at_board_square(NewGame.board, s)
            IN /\ piece = "P" =>
                    valid_ends(NewGame, s, TRUE)
                        = {BoardSquare(s.file_, 3), BoardSquare(s.file_, 4)}
               /\ (piece = "N" /\ s = BoardSquare(2, 1)) =>
                    valid_ends(NewGame, s, TRUE)
                        = {BoardSquare(1, 3), BoardSquare(3, 3)}
               /\ (piece = "N" /\ s = BoardSquare(7, 1)) =>
                    valid_ends(NewGame, s, TRUE)
                        = {BoardSquare(6, 3), BoardSquare(8, 3)}
               /\ piece \in {"R", "B", "Q", "K"} =>
                    valid_ends(NewGame, s, TRUE) = {}

\* the starting position is on the board again, white to move, after each
\* side has played a knight out and back; the Game built from STARTING_FEN
\* has the layout of _Board()
C21_Witness ==
    /\ plies = 4
    /\ NewGame.board = Board_default
    /\ Game_init(STARTING_FEN).board = Board_default
    /\ NewGame.active = "w"
    /\ NewGame.castling = CastlingState(<<"K", "Q", "k", "q">>)
    /\ Cardinality({s \in AllSquares :
                      /\ piece_at_board_square(NewGame.board, s)
                            \in {"P", "N", "R", "B", "Q", "K"}
                      /\ valid_ends(NewGame, s, TRUE) # {}}) = 10

\* ------------------------------------------------------------------------
\* C23: in every Game reachable from the standard starting position by any
\* sequence of successful move() calls, the board holds exactly one white
\* king "K" and exactly one black king "k": no move ever removes, overwrites
\* or duplicates a king.
\* ------------------------------------------------------------------------
C23_OneKingEach ==
    /\ Cardinality({s \in AllSquares :
                      piece_at_board_square(NewGame.board, s) = "K"}) = 1
    /\ Cardinality({s \in AllSquares :
                      piece_at_board_square(NewGame.board, s) = "k"}) = 1

\* ------------------------------------------------------------------------
\* C31: in every Game reachable from the standard starting position by
\* successful move() calls, a set white castling flag implies the white king
\* is on e1 and a set black castling flag implies the black king is on e8;
\* hence every accepted king move of two files starts on e1 or e8.
\* ------------------------------------------------------------------------
C31_FlagsImplyKingAtHome ==
    /\ (NewGame.castling.white_kingside \/ NewGame.castling.white_queenside)
          => piece_at_board_square(NewGame.board, BoardSquare(5, 1)) = "K"
    /\ (NewGame.castling.black_kingside \/ NewGame.castling.black_queenside)
          => piece_at_board_square(NewGame.board, BoardSquare(5, 8)) = "k"
    /\ (/\ Moved
        /\ moved_piece \in {"k", "K"}
        /\ Abs(m.end.file_ - m.start.file_) = 2)
          => m.start \in {BoardSquare(5, 1), BoardSquare(5, 8)}

\* ------------------------------------------------------------------------
\* C32: in every Game produced by a successful move() call, if the
\* en-passant target is set then it is on rank 3 when black is active and on
\* rank 6 when white is active, the target square is empty, and the square
\* on the same file one rank further from the mover's home rank (rank 4,
\* resp. rank 5) holds a pawn of the colour that just moved.
\* ------------------------------------------------------------------------
C32_EnPassantTargetShape ==
    (Moved /\ NewGame.en_passant # NoSquare) =>
        LET target == NewGame.en_passant
        IN /\ target.rank_ = (IF NewGame.active = "b" THEN 3 ELSE 6)
           /\ piece_at_board_square(NewGame.board, target) = NoPiece
           /\ piece_at_board_square(
                 NewGame.board,
                 BoardSquare(target.file_, IF target.rank_ = 3 THEN 4 ELSE 5))
                = (IF NewGame.active = "b" THEN "P" ELSE "p")

\* a black pawn has just advanced from rank 7 to rank 5: white is to move
\* and the target is the empty rank-6 square the pawn passed over
C32_Witness ==
    /\ Moved
    /\ NewGame.active = "w"
    /\ NewGame.en_passant # NoSquare
    /\ NewGame.en_passant.rank_ = 6
    /\ moved_piece = "p"
    /\ m.start.rank_ = 7
    /\ piece_at_board_square(NewGame.board, m.end) = "p"
    /\ piece_at_board_square(NewGame.board, NewGame.en_passant) = NoPiece

\* ------------------------------------------------------------------------
\* C33: in every Game reachable by successful move() calls from a position
\* with no pawn on rank 1 or rank 8, no pawn of either colour stands on
\* rank 1 or rank 8: a pawn reaching the back rank is always replaced by a
\* piece that is not a pawn.
\* ------------------------------------------------------------------------
C33_NoPawnOnBackRank ==
    \A s \in AllSquares :
        s.rank_ \in {1, 8} =>
            piece_at_board_square(NewGame.board, s) \notin {"p", "P"}

\* a black pawn has moved to rank 1 and the square it reached holds a black
\* piece that is not a pawn
C33_Witness ==
    /\ Moved
    /\ moved_piece = "p"
    /\ m.end.rank_ = 1
    /\ piece_at_board_square(NewGame.board, m.end) \in {"q", "n", "r", "b"}

\* ------------------------------------------------------------------------
\* C34: a finished game accepts no move: in any Game for which
\* is_checkmate() or is_stalemate() is true, every move() call fails with a
\* validation error and returns no new Game; and is_checkmate() and
\* is_stalemate() are never both true of the same Game.
\* ------------------------------------------------------------------------
C34_FinishedGameAcceptsNoMove ==
    LET checkmate == is_checkmate(NewGame)
        stalemate == is_stalemate(NewGame)
    IN /\ ~(checkmate /\ stalemate)
       /\ (checkmate \/ stalemate) =>
             \A start \in AllSquares, end \in AllSquares :
             \A promotion \in PromotionInputs :
                 validate_move(NewGame, BasicMove(start, end, promotion))
                   \in {"NoPieceAtSquareException", "NotYourTurnException",
                        "InvalidMoveException",
                        "MoveMissingPromotionException",
                        "InvalidPromotionDataException"}

\* a move has given checkmate, and the mated king is refused a step onto a
\* square next to it that is free of its own pieces
C34_Witness ==
    /\ Moved
    /\ is_checkmate(NewGame)
    /\ \E start \in own_king_squares(NewGame) :
       \E end \in King_move_squares(
                      piece_at_board_square(NewGame.board, start),
                      NewGame.board, start) :
           validate_move(NewGame, BasicMove(start, end, NoPromotion))
               = "InvalidMoveException"

\* ------------------------------------------------------------------------
\* C35: for every Game and every square s holding a piece of the active
\* colour, valid_ends(s) never contains s itself nor any square occupied by
\* a piece of the active colour, so no accepted move captures the mover's
\* own piece: the end square of an accepted move is not its start square
\* and did not hold a piece of the mover's colour.
\* ------------------------------------------------------------------------
C35_NoOwnSquareOffered ==
    /\ \A s \in own_squares(NewGame) :
         \A end \in valid_ends(NewGame, s, TRUE) :
             /\ end # s
             /\ _colour_of_piece(piece_at_board_square(NewGame.board, end))
                   # NewGame.active
    /\ Moved =>
         /\ m.end # m.start
         /\ _colour_of_piece(piece_at_board_square(Self.board, m.end))
               # Self.active

\* after a move, a white pawn to move has a white piece on a forward
\* diagonal, and valid_ends offers the pawn other squares but not that one
C35_Witness ==
    /\ Moved
    /\ NewGame.active = "w"
    /\ \E s \in own_squares(NewGame) :
         /\ piece_at_board_square(NewGame.board, s) = "P"
         /\ valid_ends(NewGame, s, TRUE) # {}
         /\ \E one \in {-1, 1} :
              /\ delta(s, one, 1) # NoSquare
              /\ _colour_of_piece(piece_at_board_square(
                     NewGame.board, delta(s, one, 1))) = "w"
              /\ delta(s, one, 1) \notin valid_ends(NewGame, s, TRUE)

\* ------------------------------------------------------------------------
\* C36: decoding a placement string rejects (fails, builds no Board)
\* whenever any of its '/'-separated rows does not describe exactly 8 files,
\* counting each piece letter as one file and each digit as that many empty
\* files, or when the number of rows is not 8.
\* ------------------------------------------------------------------------
C36_DecodeRejects ==
    LET rows == Split(fen_text, "/")
        FilesOf(row) ==
            LET count[i \in 0..Len(row)] ==
                    IF i = 0 THEN 0
                    ELSE count[i - 1] + (IF IsDigitText(<<row[i]>>)
                                         THEN TextToInt(<<row[i]>>) ELSE 1)
            IN count[Len(row)]
        ill_formed == \/ Len(rows) # 8
                      \/ \E r \in 1..Len(rows) : FilesOf(rows[r]) # 8
    IN (ill_formed /\ (raised # OK \/ fen_out # NotCalled)) =>
          /\ raised = "AssertionError"
          /\ fen_out = NotCalled
          /\ squares_heap[1] = Unallocated

\* ------------------------------------------------------------------------
\* C37: BoardSquare.delta(file_delta, rank_delta) never raises, for any
\* integer deltas: it returns the square at (file + file_delta, rank +
\* rank_delta) when that is within a..h and 1..8, and None otherwise.
\* ------------------------------------------------------------------------
C37_DeltaNeverRaises ==
    (delta_call # NoDeltaCall /\ delta_call.called) =>
        LET f == delta_call.square.file_ + delta_call.file_delta
            r == delta_call.square.rank_ + delta_call.rank_delta
        IN /\ raised = OK
           /\ delta_call.result = (IF f \in 1..8 /\ r \in 1..8
                                   THEN [file_ |-> f, rank_ |-> r]
                                   ELSE NoSquare)

====
